---- MODULE Spec2Model ----
(***************************************************************************)
(* Silver layer quality processor (src/src/silver/processor.py) with the   *)
(* Pydantic schema registry (src/src/silver/schemas.py).                   *)
(*                                                                         *)
(* A data frame is a sequence of rows; a row is a record whose fields are  *)
(* the columns the processor itself inspects: the primary-key column, the  *)
(* foreign-key columns, invoices' line_items_json, and "rest", which       *)
(* stands for all remaining columns of the row ("ok": they satisfy every   *)
(* constraint of the entity's Pydantic schema, "bad": one of them violates *)
(* a constraint).  Dictionaries and directories are functions whose DOMAIN *)
(* is the set of keys (files) present.                                     *)
(*                                                                         *)
(* Spec runs process_all on such rows in empty output directories,         *)
(* UsedSpec in directories an earlier run has written to, and              *)
(* RoundTripSpec on rows that spell out the constrained and validated      *)
(* columns, read from CSV text with Polars' column typing, and then once   *)
(* more on the Silver files of that run.  TwiceSpec runs process_all twice *)
(* from empty directories on one input, and CleanSpec on customers.csv     *)
(* files whose schema declares clean rules, followed by a call of          *)
(* SilverCleaner.clean_column (src/src/silver/cleaner.py) on the frame     *)
(* read.                                                                   *)
(***************************************************************************)
EXTENDS Integers, Sequences, FiniteSets, TLC

\* ------------------------------------------------------------------ bounds
\* Rows held by all Bronze files of one run together.
MaxRows == 3

\* ------------------------------------------------------------- cell values
None == "None"
Keys == {"K1", "K2"}
RestVals == {"ok", "bad"}

NullJson == [kind |-> "null", items |-> <<>>]
BadJson == [kind |-> "bad", items |-> <<>>]
JsonList(items) == [kind |-> "list", items |-> items]
Item(line_number, product_id) == [line_number |-> line_number, product_id |-> product_id]

\* A Python int, the value polars yields for a cell of a column it inferred
\* as Int64, as opposed to the str of the same digits.
PyInt(text) == "int:" \o text

\* The CSV fields of the inputs that parse as integers.
IntegerTexts == {"5551234", "-2", "3", "7", "20240115"}

PyInts == {PyInt(t) : t \in IntegerTexts}

\* str(v) of a cell that is not None.
Str(v) == IF v \in PyInts THEN CHOOSE t \in IntegerTexts : PyInt(t) = v ELSE v

\* Python True / False, the values of a Boolean column.
PyBool(text) == "bool:" \o text
PyBools == {PyBool("True"), PyBool("False")}

\* str.lower() and polars' str.to_lowercase, on the texts of the inputs
\* that hold an upper-case letter.
ToLowercase(t) ==
    CASE t = "A@B.CO" -> "a@b.co"
      [] t = "K1" -> "k1"
      [] t = "K2" -> "k2"
      [] t = "Yes" -> "yes"
      [] OTHER -> t

\* float(v), in tenths.
Float(text) ==
    CASE text = "-20.0" -> -200
      [] text = "100.0" -> 1000
      [] text = "-5.0" -> -50
      [] text = "10.0" -> 100
      [] text = "-0.1" -> -1
      [] text = "0.5" -> 5
      [] text = "1.5" -> 15
      [] text = "50.0" -> 500
      [] text = "150.0" -> 1500
      [] text = "-2" -> -20
      [] text = "3" -> 30
      [] text = "7" -> 70

\* ---------------------------------------------------------------- CSV files
\* A CSV file is a sequence of rows of text fields; the empty field is a
\* null.  line_items_json is one text field, kept as the JSON it holds.
CsvField(v) == IF v = None THEN "" ELSE Str(v)

\* DataFrame.write_csv
WriteCsv(df) ==
    [k \in 1..Len(df) |->
        [c \in DOMAIN df[k] |->
            IF c = "line_items_json" THEN df[k][c] ELSE CsvField(df[k][c])]]

\* pl.read_csv(path, infer_schema_length=None) infers Int64 for a column
\* all of whose non-null fields are integers.
IsIntColumn(file, c) ==
    LET texts == {file[k][c] : k \in 1..Len(file)} \ {""}
    IN texts # {} /\ texts \subseteq IntegerTexts

ReadField(file, c, text) ==
    IF text = "" THEN None
    ELSE IF IsIntColumn(file, c) THEN PyInt(text) ELSE text

ReadCsv(file) ==
    [k \in 1..Len(file) |->
        [c \in DOMAIN file[k] |->
            IF c = "line_items_json" THEN file[k][c]
            ELSE ReadField(file, c, file[k][c])]]

\* ----------------------------------------------------------- configuration
\* Mutant of ProcessingOrder: products are processed before their target.
ProcessingOrderProductsFirst ==
    << "products", "vendors", "customers", "transactions",
       "invoices", "reviews", "support_tickets", "call_transcripts" >>

\* SilverProcessor._get_processing_order
ProcessingOrder ==
    << "vendors", "products", "customers", "transactions",
       "invoices", "reviews", "support_tickets", "call_transcripts" >>

AllSources == {ProcessingOrder[i] : i \in 1..Len(ProcessingOrder)}

\* The "schema" key each source carries in the source registry.
ConfiguredSchema(source_name) ==
    CASE source_name = "vendors" -> "vendor"
      [] source_name = "products" -> "product"
      [] source_name = "customers" -> "customer"
      [] source_name = "transactions" -> "transaction"
      [] source_name = "invoices" -> "invoice"
      [] source_name = "reviews" -> "review"
      [] source_name = "support_tickets" -> "support_ticket"
      [] source_name = "call_transcripts" -> "call_transcript"
      [] OTHER -> source_name

\* schemas.yaml entries of a field: one that declares a foreign key, one
\* that declares a clean rule.
FK(field, target) == [name |-> field, foreign_key |-> target, clean |-> None]
Clean(field, rule) == [name |-> field, foreign_key |-> None, clean |-> rule]

\* schemas.yaml entry of a schema: primary key and, in declaration order,
\* the fields that declare a foreign key.
SchemaDef(schema_name) ==
    CASE schema_name = "vendor" ->
           [primary_key |-> "vendor_id", fields |-> <<>>]
      [] schema_name = "product" ->
           [primary_key |-> "product_id", fields |-> <<FK("vendor_id", "vendor")>>]
      [] schema_name = "customer" ->
           [primary_key |-> "customer_id", fields |-> <<>>]
      [] schema_name = "transaction" ->
           [primary_key |-> "transaction_id",
            fields |-> <<FK("customer_id", "customer"), FK("product_id", "product")>>]
      [] schema_name = "invoice" ->
           [primary_key |-> "invoice_id", fields |-> <<FK("vendor_id", "vendor")>>]
      [] schema_name = "review" ->
           [primary_key |-> "review_id",
            fields |-> <<FK("product_id", "product"), FK("customer_id", "customer")>>]
      [] schema_name = "support_ticket" ->
           [primary_key |-> "ticket_id",
            fields |-> <<FK("customer_id", "customer"), FK("product_id", "product")>>]
      [] schema_name = "call_transcript" ->
           [primary_key |-> "call_id",
            fields |-> <<FK("customer_id", "customer"), FK("ticket_id", "support_ticket")>>]

\* schema_def = self.schemas_config.get(schema_name, {})
EmptyDef == [primary_key |-> None, fields |-> <<>>]

StandardSchemas ==
    {"vendor", "product", "customer", "transaction", "invoice", "review",
     "support_ticket", "call_transcript"}

\* SCHEMA_REGISTRY keys
SCHEMA_REGISTRY ==
    {"customer", "product", "transaction", "vendor", "invoice",
     "invoice_line_item", "review", "support_ticket", "call_transcript"}

\* ---------------------------------------------------------------- Pydantic
PF(name, type, required, pattern, not_empty) ==
    [name |-> name, type |-> type, required |-> required, pattern |-> pattern,
     not_empty |-> not_empty]

\* Key fields of each Pydantic model, in declaration order: type, required
\* (str rather than Optional[str]), pattern-constrained, guarded by a
\* not-empty validator.
PydanticFields(schema_name) ==
    CASE schema_name = "vendor" -> <<PF("vendor_id", "str", TRUE, TRUE, FALSE)>>
      [] schema_name = "product" ->
           <<PF("product_id", "str", TRUE, TRUE, FALSE), PF("vendor_id", "str", TRUE, TRUE, FALSE)>>
      [] schema_name = "customer" -> <<PF("customer_id", "str", TRUE, TRUE, FALSE)>>
      [] schema_name = "transaction" ->
           <<PF("transaction_id", "str", TRUE, TRUE, FALSE), PF("customer_id", "str", FALSE, FALSE, FALSE),
             PF("product_id", "str", FALSE, FALSE, FALSE)>>
      [] schema_name = "invoice" ->
           <<PF("invoice_id", "str", TRUE, TRUE, FALSE), PF("vendor_id", "str", TRUE, FALSE, FALSE)>>
      [] schema_name = "invoice_line_item" ->
           <<PF("invoice_id", "str", TRUE, FALSE, FALSE), PF("line_number", "int", TRUE, FALSE, FALSE),
             PF("product_id", "str", FALSE, FALSE, FALSE)>>
      [] schema_name = "review" ->
           <<PF("review_id", "str", TRUE, FALSE, TRUE), PF("product_id", "str", TRUE, FALSE, FALSE),
             PF("customer_id", "str", TRUE, FALSE, FALSE)>>
      [] schema_name = "support_ticket" ->
           <<PF("ticket_id", "str", TRUE, FALSE, TRUE), PF("customer_id", "str", TRUE, FALSE, FALSE),
             PF("product_id", "str", FALSE, FALSE, FALSE)>>
      [] schema_name = "call_transcript" ->
           <<PF("call_id", "str", TRUE, FALSE, FALSE), PF("ticket_id", "str", FALSE, FALSE, FALSE),
             PF("customer_id", "str", TRUE, FALSE, FALSE)>>

Err(field, type) == [field |-> field, type |-> type]

\* The errors Pydantic reports for one declared key field of a row.
FieldErrors(pf, row) ==
    IF pf.name \notin DOMAIN row
    THEN IF pf.required THEN <<Err(pf.name, "missing")>> ELSE <<>>
    ELSE LET v == row[pf.name] IN
         IF v = None
         THEN IF pf.required
              THEN <<Err(pf.name, IF pf.type = "int" THEN "int_type" ELSE "string_type")>>
              ELSE <<>>
         ELSE IF pf.pattern /\ v \notin Keys
         THEN <<Err(pf.name, "string_pattern_mismatch")>>
         ELSE IF pf.not_empty /\ v \in {"", " "}
         THEN <<Err(pf.name, "value_error")>>
         ELSE <<>>

RECURSIVE KeyFieldErrors(_, _, _)
KeyFieldErrors(pfs, row, j) ==
    IF j > Len(pfs) THEN <<>>
    ELSE FieldErrors(pfs[j], row) \o KeyFieldErrors(pfs, row, j + 1)

\* An Optional field with constraints or a field validator: kind "number"
\* (ge / le bounds in tenths where has_ge / has_le), "str", or the validated
\* kinds "email", "date", "tax_rate".
DF(name, kind, has_ge, ge, has_le, le) ==
    [name |-> name, kind |-> kind, has_ge |-> has_ge, ge |-> ge,
     has_le |-> has_le, le |-> le]

\* Those fields of each Pydantic model, in declaration order.
DetailFields(schema_name) ==
    CASE schema_name = "customer" ->
           <<DF("email", "email", FALSE, 0, FALSE, 0),
             DF("phone", "str", FALSE, 0, FALSE, 0),
             DF("total_spend", "number", FALSE, 0, FALSE, 0),
             DF("registration_date", "date", FALSE, 0, FALSE, 0),
             DF("last_purchase_date", "date", FALSE, 0, FALSE, 0),
             DF("segment", "str", FALSE, 0, FALSE, 0),
             DF("is_active", "bool", FALSE, 0, FALSE, 0)>>
      [] schema_name = "product" -> <<DF("price", "number", TRUE, 0, FALSE, 0)>>
      [] schema_name = "transaction" -> <<DF("quantity", "number", FALSE, 0, FALSE, 0)>>
      [] schema_name = "invoice" -> <<DF("tax_rate", "tax_rate", FALSE, 0, FALSE, 0)>>
      [] schema_name = "support_ticket" ->
           <<DF("satisfaction_score", "number", TRUE, 10, TRUE, 50)>>
      [] schema_name = "call_transcript" ->
           <<DF("quality_score", "number", TRUE, 0, TRUE, 1000)>>
      [] OTHER -> <<>>

\* The texts of the inputs that CustomerSchema.validate_email_format matches
\* against its pattern, and those it nulls beforehand.
WellFormedEmails == {"a@b.co", "A@B.CO"}
EmailNulls == {"n/a", "null", "none", "nan"}

\* The date texts of the inputs that dateutil parses to a day after
\* date.today(), and those it fails to parse.
FutureDates == {"2099-12-31"}
UnparsableDates == {"not-a-date"}

\* Optional[bool] in lax mode: a bool, or one of the texts Pydantic takes
\* for one; None for any other text.
PydanticBool(v) ==
    IF v \in PyBools THEN v
    ELSE IF ToLowercase(v) \in {"1", "on", "t", "true", "y", "yes"} THEN PyBool("True")
    ELSE IF ToLowercase(v) \in {"0", "off", "f", "false", "n", "no"} THEN PyBool("False")
    ELSE None

\* The errors Pydantic reports for one such field of a row.
DetailFieldErrors(d, row) ==
    IF d.name \notin DOMAIN row THEN <<>>
    ELSE LET v == row[d.name] IN
         IF v = None THEN <<>>
         ELSE IF d.kind = "bool"
         THEN IF PydanticBool(v) = None THEN <<Err(d.name, "bool_parsing")>> ELSE <<>>
         ELSE IF d.kind = "number"
         THEN IF d.has_ge /\ Float(Str(v)) < d.ge
              THEN <<Err(d.name, "greater_than_equal")>>
              ELSE IF d.has_le /\ Float(Str(v)) > d.le
              THEN <<Err(d.name, "less_than_equal")>>
              ELSE <<>>
         ELSE IF d.kind = "tax_rate" THEN <<>>
         ELSE IF v \in PyInts THEN <<Err(d.name, "string_type")>>
         ELSE IF d.kind = "date" /\ v # "" /\ v \in UnparsableDates
         THEN <<Err(d.name, "value_error")>>
         ELSE <<>>

RECURSIVE DetailErrors(_, _, _)
DetailErrors(ds, row, j) ==
    IF j > Len(ds) THEN <<>>
    ELSE DetailFieldErrors(ds[j], row) \o DetailErrors(ds, row, j + 1)

\* Mutant of Stored: the field validators return the value as given.
StoredAsGiven(d, v) == v

\* The value a valid record holds for such a field: what its field
\* validator returns.
Stored(d, v) ==
    IF v = None THEN None
    ELSE IF d.kind = "email"
    THEN IF v = "" \/ v \in EmailNulls \/ v \notin WellFormedEmails THEN None ELSE v
    ELSE IF d.kind = "date"
    THEN IF v # "" /\ v \in FutureDates THEN None ELSE v
    ELSE IF d.kind = "tax_rate"
    THEN IF Float(Str(v)) < 0 \/ Float(Str(v)) > 10 THEN None ELSE v
    ELSE IF d.kind = "bool" THEN PydanticBool(v)
    ELSE v

\* e.errors() of pydantic_schema.model_validate(row); <<>> when the row is
\* valid.
ValidationErrors(schema_name, row) ==
    KeyFieldErrors(PydanticFields(schema_name), row, 1)
      \o DetailErrors(DetailFields(schema_name), row, 1)
      \o (IF "rest" \in DOMAIN row /\ row["rest"] = "bad"
          THEN <<Err("rest", "value_error")>> ELSE <<>>)

\* validated.model_dump(): only the fields the model declares ("extra":
\* "ignore" drops line_items_json).
ModelDump(schema_name, row) ==
    LET ds == DetailFields(schema_name)
        declared == {PydanticFields(schema_name)[j].name :
                        j \in 1..Len(PydanticFields(schema_name))}
                    \cup {ds[j].name : j \in 1..Len(ds)} \cup {"rest"}
    IN [f \in (DOMAIN row) \cap declared |->
          IF \E j \in 1..Len(ds) : ds[j].name = f
          THEN Stored(ds[CHOOSE j \in 1..Len(ds) : ds[j].name = f], row[f])
          ELSE row[f]]

\* ------------------------------------------------------------ Bronze inputs
\* Rows a Bronze file of each source may hold.  Files are supplied for the
\* five sources below; the files of reviews, support_tickets and
\* call_transcripts (two foreign keys each, like transactions) are missing.
RowsOf(source_name) ==
    CASE source_name = "vendors" -> [vendor_id : Keys, rest : RestVals]
      [] source_name = "products" ->
           [product_id : Keys, vendor_id : {"K1", "K2"}, rest : RestVals]
      [] source_name = "customers" -> [customer_id : Keys, rest : {"ok"}]
      [] source_name = "transactions" ->
           [transaction_id : {"K1"}, customer_id : {None, "K2"},
            product_id : {"", "K2"}, rest : {"ok"}]
      [] source_name = "invoices" ->
           [invoice_id : Keys, vendor_id : {"K1", "K2"}, rest : {"ok"},
            line_items_json : {NullJson,
                               JsonList(<<Item("1", "K1")>>),
                               JsonList(<<Item("1", "K2"), Item(None, "K1")>>)}]
      [] OTHER -> {}

\* Bronze files of at least one and at most n rows.
Tables(source_name, n) == UNION {[1..k -> RowsOf(source_name)] : k \in 1..n}

\* ------------------------------------------------------------------- state
VARIABLES
    sources,        \* self.sources: source name -> schema name
    schemas_config, \* self.schemas_config: schema name -> definition
    pc,             \* position in process_all: "loop", "post", "done"
    idx,            \* index into ordered_sources of the next source
    bronze,         \* Bronze directory: source name -> rows of its file
    silver,         \* Silver directory: file name -> rows
    quarantine,     \* quarantine directory: name -> quarantine records
    valid_keys,     \* self._valid_keys: schema name -> set of keys
    results,        \* results: source name -> ProcessingResult
    cur,            \* locals of the latest _process_source call
    run,            \* 1; 2 in the run that follows a first run
    first_results,  \* what process_all returned in run 1, once run 2 began
    cleaner_call    \* arguments and result of the latest clean_column call

vars == <<sources, schemas_config, pc, idx, bronze, silver, quarantine,
          valid_keys, results, cur, run, first_results, cleaner_call>>

EmptyDict == [k \in {} |-> {}]
Put(d, k, v) == [x \in (DOMAIN d) \cup {k} |-> IF x = k THEN v ELSE d[x]]

RECURSIVE SumLen(_, _)
SumLen(d, j) ==
    IF j > Len(ProcessingOrder) THEN 0
    ELSE (IF ProcessingOrder[j] \in DOMAIN d THEN Len(d[ProcessingOrder[j]]) ELSE 0)
         + SumLen(d, j + 1)

\* ----------------------------------------------------------- deduplication
\* Mutant of FirstOccurrences: keep="last".
LastOccurrences(df, primary_key) ==
    {i \in 1..Len(df) : \A j \in (i + 1)..Len(df) : df[j][primary_key] # df[i][primary_key]}

\* Rows df.unique(subset=[primary_key], keep="first") keeps: the first
\* occurrence of each key value.
FirstOccurrences(df, primary_key) ==
    {i \in 1..Len(df) : \A j \in 1..(i - 1) : df[j][primary_key] # df[i][primary_key]}

Orders(S) ==
    {s \in [1..Cardinality(S) -> S] :
        \A a, b \in 1..Cardinality(S) : a # b => s[a] # s[b]}

Columns(df) == IF df = <<>> THEN {} ELSE DOMAIN df[1]

\* Mutant of Unique: keep="any", some occurrence of each key value is kept.
UniqueKeepAny(df, primary_key) ==
    IF primary_key # None /\ primary_key \in Columns(df)
    THEN UNION {Orders(S) :
                  S \in {T \in SUBSET (1..Len(df)) :
                            /\ \A i \in 1..Len(df) :
                                  \E j \in T : df[j][primary_key] = df[i][primary_key]
                            /\ \A i, j \in T :
                                  i # j => df[i][primary_key] # df[j][primary_key]}}
    ELSE {[i \in 1..Len(df) |-> i]}

\* Step 2.  The possible results of the deduplication, as sequences of
\* input positions.  unique() is called without maintain_order, so the kept
\* rows come out in an unspecified order.
Unique(df, primary_key) ==
    IF primary_key # None /\ primary_key \in Columns(df)
    THEN Orders(FirstOccurrences(df, primary_key))
    ELSE {[i \in 1..Len(df) |-> i]}

\* ------------------------------------------------------------------ cleaning
\* The column is of dtype String: no cell is an int or a bool.
IsText(df, c) ==
    \A k \in 1..Len(df) : df[k][c] = None \/ df[k][c] \notin (PyInts \cup PyBools)

\* str.to_uppercase, str.to_titlecase, the phone replace_all,
\* str.strip_chars and the whitespace replace_all, on the texts the inputs
\* hold in the columns that declare these rules.
ToUppercase(t) ==
    CASE t = "k1" -> "K1"
      [] t = "k2" -> "K2"
      [] t = "a@b.co" -> "A@B.CO"
      [] OTHER -> t

ToTitlecase(t) ==
    CASE t = "vip gold" -> "Vip Gold"
      [] t = " vip  gold " -> " Vip  Gold "
      [] OTHER -> t

PhoneStrip(t) ==
    CASE t = "555-1234" -> "5551234"
      [] OTHER -> t

StripChars(t) ==
    CASE t = " vip  gold " -> "vip  gold"
      [] OTHER -> t

CollapseWhitespace(t) ==
    CASE t = "vip  gold" -> "vip gold"
      [] t = " vip  gold " -> " vip gold "
      [] OTHER -> t

\* The when / then / otherwise expression of the boolean rule.
BooleanNormalize(t) ==
    IF ToLowercase(t) \in {"true", "yes", "1", "y"} THEN PyBool("True")
    ELSE IF ToLowercase(t) \in {"false", "no", "0", "n"} THEN PyBool("False")
    ELSE None

\* _normalize_date of _apply_cleaning: dateutil's parse(val, dayfirst=False)
\* formatted as %Y-%m-%d, the value itself when it does not parse.
NormalizeDate(t) ==
    CASE t = "01/15/2024" -> "2024-01-15"
      [] t = "20240115" -> "2024-01-15"
      [] OTHER -> t

\* The texts of the inputs that are digits with at most one dot and lie in
\* 0..4102444800.
EpochTexts == {"20240115"}

\* _normalize_date of SilverCleaner: such a text is taken for epoch seconds
\* and formatted in the local time zone tz; 20240115 s is 1970-08-23 06:15
\* UTC, the day before in zones seven hours or more west of it.
CleanerNormalizeDate(t, tz) ==
    IF t \in EpochTexts
    THEN (IF tz = "west" THEN "1970-08-22" ELSE "1970-08-23")
    ELSE NormalizeDate(t)

TimeZones == {"utc", "west"}

\* with_columns(pl.col(c).<expression>): the frame with Op applied to the
\* non-null cells of column c; op maps each value of the column.
MapColumn(df, c, op) ==
    [k \in 1..Len(df) |->
        [df[k] EXCEPT ![c] = IF df[k][c] = None THEN None ELSE op[df[k][c]]]]

\* The values column c of df holds.
Values(df, c) == {df[k][c] : k \in 1..Len(df)}

\* The clean rule names _apply_cleaning has a branch for.
ProcessorRules ==
    {"lowercase", "uppercase", "phone_normalize", "boolean_normalize", "date_iso"}

\* The expression of each branch.
ProcessorRule(clean_rule, t) ==
    CASE clean_rule = "lowercase" -> ToLowercase(t)
      [] clean_rule = "uppercase" -> ToUppercase(t)
      [] clean_rule = "phone_normalize" -> PhoneStrip(t)
      [] clean_rule = "boolean_normalize" -> BooleanNormalize(t)
      [] clean_rule = "date_iso" -> NormalizeDate(t)
      [] OTHER -> t

\* Mutant of CleanField: the except branch nulls the column.
CleanFieldNullsOnError(c, f, raising) ==
    IF f.name \notin Columns(c.df) \/ f.clean = None THEN c
    ELSE IF f.clean \notin ProcessorRules \/ ~IsText(c.df, f.name) THEN c
    ELSE IF f.name \in raising
    THEN [df |-> MapColumn(c.df, f.name, [t \in Values(c.df, f.name) |->
                                  None]), stats |-> c.stats]
    ELSE [df |-> MapColumn(c.df, f.name, [t \in Values(c.df, f.name) |->
                                  ProcessorRule(f.clean, t)]),
          stats |-> [x \in (DOMAIN c.stats) \cup {f.name} |->
                        (IF x \in DOMAIN c.stats THEN c.stats[x] ELSE 0)
                        + (IF x = f.name THEN 1 ELSE 0)]]

\* One iteration of the loop of _apply_cleaning over field f, from the
\* frame and stats c; the rules of the fields in raising raise inside the
\* try.
CleanField(c, f, raising) ==
    IF f.name \notin Columns(c.df) \/ f.clean = None THEN c
    ELSE IF f.clean \notin ProcessorRules \/ ~IsText(c.df, f.name) THEN c
    ELSE IF f.name \in raising THEN c
    ELSE [df |-> MapColumn(c.df, f.name, [t \in Values(c.df, f.name) |->
                                  ProcessorRule(f.clean, t)]),
          stats |-> [x \in (DOMAIN c.stats) \cup {f.name} |->
                        (IF x \in DOMAIN c.stats THEN c.stats[x] ELSE 0)
                        + (IF x = f.name THEN 1 ELSE 0)]]

\* _apply_cleaning after the fields fields[1..j]: the frame and stats.
RECURSIVE ApplyCleaning(_, _, _, _)
ApplyCleaning(df, fields, raising, j) ==
    IF j = 0 THEN [df |-> df, stats |-> [x \in {} |-> 0]]
    ELSE CleanField(ApplyCleaning(df, fields, raising, j - 1), fields[j], raising)

\* cleaning_rules["cleaners"]: the rule registry of SilverCleaner.
Rule(type, case, operations) ==
    [type |-> type, case |-> case, operations |-> operations]

Rules ==
    [r \in {"date_iso", "uppercase", "titlecase", "lowercase", "phone_normalize",
            "string_clean", "boolean_normalize"} |->
        CASE r = "date_iso" -> Rule("date", None, {})
          [] r = "uppercase" -> Rule("case", "upper", {})
          [] r = "titlecase" -> Rule("case", "title", {})
          [] r = "lowercase" -> Rule("case", "lower", {})
          [] r = "phone_normalize" -> Rule("phone", None, {})
          [] r = "string_clean" -> Rule("string", None, {"trim", "normalize_whitespace"})
          [] r = "boolean_normalize" -> Rule("boolean", None, {})]

\* The expression the helper of each rule type applies to a cell.
CleanerRule(rule, tz, t) ==
    CASE rule.type = "case" /\ rule.case = "lower" -> ToLowercase(t)
      [] rule.type = "case" /\ rule.case = "upper" -> ToUppercase(t)
      [] rule.type = "case" /\ rule.case = "title" -> ToTitlecase(t)
      [] rule.type = "phone" -> PhoneStrip(t)
      [] rule.type = "boolean" -> BooleanNormalize(t)
      [] rule.type = "date" -> CleanerNormalizeDate(t, tz)
      [] rule.type = "string" ->
           LET trimmed == IF "trim" \in rule.operations THEN StripChars(t) ELSE t
           IN IF "normalize_whitespace" \in rule.operations
              THEN CollapseWhitespace(trimmed) ELSE trimmed
      [] OTHER -> t

\* Mutant of CleanColumn: an unknown rule name falls back to lowercase.
CleanColumnDefaultsToLowercase(rules, df, field_name, rule_name, raises, tz) ==
    IF raises \/ field_name \notin Columns(df) \/ ~IsText(df, field_name)
    THEN [df |-> df, changed |-> FALSE]
    ELSE LET rule == IF rule_name \in DOMAIN rules THEN rules[rule_name]
                     ELSE Rule("case", "lower", {})
         IN [df |-> MapColumn(df, field_name, [t \in Values(df, field_name) |->
                                  CleanerRule(rule, tz, t)]),
             changed |-> TRUE]

\* SilverCleaner.clean_column(df, field_name, rule_name): the frame and the
\* changed flag.  raises: an expression of the helper raises; a column the
\* frame lacks raises in the helper's dtype test.
CleanColumn(rules, df, field_name, rule_name, raises, tz) ==
    IF rule_name \notin DOMAIN rules THEN [df |-> df, changed |-> FALSE]
    ELSE LET rule == rules[rule_name] IN
         IF rule.type \notin {"case", "phone", "boolean", "date", "string"}
         THEN [df |-> df, changed |-> FALSE]
         ELSE IF raises \/ field_name \notin Columns(df)
         THEN [df |-> df, changed |-> FALSE]
         ELSE IF ~IsText(df, field_name) THEN [df |-> df, changed |-> FALSE]
         ELSE IF rule.type = "case" /\ rule.case \notin {"lower", "upper", "title"}
         THEN [df |-> df, changed |-> FALSE]
         ELSE IF rule.type = "string" /\ rule.operations = {}
         THEN [df |-> df, changed |-> FALSE]
         ELSE [df |-> MapColumn(df, field_name, [t \in Values(df, field_name) |->
                                  CleanerRule(rule, tz, t)]),
               changed |-> TRUE]

\* ---------------------------------------------------- referential integrity
\* valid_keys = self._valid_keys.get(fk_target, set())
CachedKeys(vk, fk_target) == IF fk_target \in DOMAIN vk THEN vk[fk_target] ELSE {}

IsOrphanValue(val, keys) == val # None /\ val # "" /\ val \notin keys

RIError(field_name, val, fk_target) ==
    [field |-> field_name, value |-> val, target |-> fk_target,
     type |-> "referential_integrity"]

\* Step 3 for one row: fk_errors[idx], in field order.
RECURSIVE FkErrors(_, _, _, _)
FkErrors(row, fields, vk, j) ==
    IF j > Len(fields) THEN <<>>
    ELSE LET f == fields[j]
             keys == CachedKeys(vk, f.foreign_key)
         IN (IF f.name \in DOMAIN row /\ keys # {} /\ IsOrphanValue(row[f.name], keys)
             THEN <<RIError(f.name, row[f.name], f.foreign_key)>>
             ELSE <<>>) \o FkErrors(row, fields, vk, j + 1)

\* The cache entries step 3 reads, as it found them.
FkReads(df, fields, vk) ==
    LET targets == {fields[j].foreign_key :
                       j \in {x \in 1..Len(fields) :
                                 /\ fields[x].foreign_key # None
                                 /\ fields[x].name \in Columns(df)}}
    IN [t \in targets |-> CachedKeys(vk, t)]

\* -------------------------------------------------------------- validation
QRecord(row_index, row, errors) ==
    [row_index |-> row_index, record |-> row, errors |-> errors]

\* Mutant of ValidRecords: the orphan branch lacks its continue, so an
\* orphaned row is validated as well.
RECURSIVE ValidRecordsNoContinue(_, _, _, _)
ValidRecordsNoContinue(schema_name, df, fk_errors, k) ==
    IF k > Len(df) THEN <<>>
    ELSE (IF ValidationErrors(schema_name, df[k]) = <<>>
          THEN <<ModelDump(schema_name, df[k])>> ELSE <<>>)
         \o ValidRecordsNoContinue(schema_name, df, fk_errors, k + 1)

\* Step 4, rows k..Len(df): the valid_records list.
RECURSIVE ValidRecords(_, _, _, _)
ValidRecords(schema_name, df, fk_errors, k) ==
    IF k > Len(df) THEN <<>>
    ELSE (IF fk_errors[k] = <<>> /\ ValidationErrors(schema_name, df[k]) = <<>>
          THEN <<ModelDump(schema_name, df[k])>> ELSE <<>>)
         \o ValidRecords(schema_name, df, fk_errors, k + 1)

\* Mutant of QuarantinedRecords: an orphaned row is quarantined with the
\* errors of the schema validation instead of its fk_errors.
RECURSIVE QuarantinedRecordsSchemaErrors(_, _, _, _)
QuarantinedRecordsSchemaErrors(schema_name, df, fk_errors, k) ==
    IF k > Len(df) THEN <<>>
    ELSE (IF fk_errors[k] # <<>> \/ ValidationErrors(schema_name, df[k]) # <<>>
          THEN <<QRecord(k - 1, df[k], ValidationErrors(schema_name, df[k]))>>
          ELSE <<>>)
         \o QuarantinedRecordsSchemaErrors(schema_name, df, fk_errors, k + 1)

\* Step 4, rows k..Len(df): the quarantined_records list.  An orphaned row
\* carries its fk_errors and is not validated.
RECURSIVE QuarantinedRecords(_, _, _, _)
QuarantinedRecords(schema_name, df, fk_errors, k) ==
    IF k > Len(df) THEN <<>>
    ELSE (IF fk_errors[k] # <<>>
          THEN <<QRecord(k - 1, df[k], fk_errors[k])>>
          ELSE IF ValidationErrors(schema_name, df[k]) # <<>>
          THEN <<QRecord(k - 1, df[k], ValidationErrors(schema_name, df[k]))>>
          ELSE <<>>)
         \o QuarantinedRecords(schema_name, df, fk_errors, k + 1)

CountType(errors, type) ==
    Cardinality({j \in 1..Len(errors) : errors[j].type = type})

RECURSIVE SumTypes(_, _, _)
SumTypes(qrecs, type, k) ==
    IF k > Len(qrecs) THEN 0
    ELSE CountType(qrecs[k].errors, type) + SumTypes(qrecs, type, k + 1)

\* result.error_counts after step 4: one per orphaned row, one per
\* validation error.
ErrorCounts(qrecs, orphan_indices) ==
    LET invalid == SelectSeq(qrecs, LAMBDA q : (q.row_index + 1) \notin orphan_indices)
        types == UNION {{invalid[k].errors[j].type : j \in 1..Len(invalid[k].errors)} :
                          k \in 1..Len(invalid)}
        kinds == types \cup (IF orphan_indices # {} THEN {"referential_integrity"} ELSE {})
    IN [t \in kinds |->
          IF t = "referential_integrity"
          THEN Cardinality(orphan_indices) + SumTypes(invalid, t, 1)
          ELSE SumTypes(invalid, t, 1)]

\* Mutant of CacheValidKeys: only the key of the first row is cached.
CacheFirstKeyOnly(vk, schema_name, primary_key, df) ==
    IF primary_key # None /\ primary_key \in Columns(df)
    THEN Put(vk, schema_name, {df[1][primary_key]})
    ELSE vk

\* Mutant of CacheValidKeys: the cache is replaced by the new entry.
CacheReplacesDict(vk, schema_name, primary_key, df) ==
    IF primary_key # None /\ primary_key \in Columns(df)
    THEN Put(EmptyDict, schema_name,
             {df[k][primary_key] : k \in {x \in 1..Len(df) : df[x][primary_key] # None}})
    ELSE vk

\* SilverProcessor._cache_valid_keys
CacheValidKeys(vk, schema_name, primary_key, df) ==
    IF primary_key # None /\ primary_key \in Columns(df)
    THEN Put(vk, schema_name,
             {df[k][primary_key] : k \in {x \in 1..Len(df) : df[x][primary_key] # None}})
    ELSE vk

ProcessingResult(total, valid, quarantined, dups, orphaned, error_counts) ==
    [total_records |-> total, valid_records |-> valid,
     quarantined_records |-> quarantined, duplicates_removed |-> dups,
     orphaned_records |-> orphaned, error_counts |-> error_counts,
     fields_cleaned |-> EmptyDict]

\* Mutant of PassRate: the guard against total_records = 0 is missing.
PassRateUnguarded(r) == [num |-> r.valid_records, den |-> r.total_records]

\* Mutant of PassRate: the share of the quarantined rows.
PassRateOfQuarantined(r) ==
    IF r.total_records = 0 THEN [num |-> 0, den |-> 1]
    ELSE [num |-> r.quarantined_records, den |-> r.total_records]

\* ProcessingResult.pass_rate, as the fraction num / den; den = 0 stands for
\* the ZeroDivisionError of a division by zero.
PassRate(r) ==
    IF r.total_records = 0 THEN [num |-> 0, den |-> 1]
    ELSE [num |-> r.valid_records, den |-> r.total_records]

\* Mutant of PassThroughResult: the orphaned rows are counted as
\* quarantined.
PassThroughQuarantinesOrphans(total, df, orphan_indices) ==
    ProcessingResult(total, Len(df) - Cardinality(orphan_indices),
                     Cardinality(orphan_indices), total - Len(df),
                     Cardinality(orphan_indices), EmptyDict)

\* The result of _process_source when get_pydantic_schema raises ValueError:
\* every row of the deduplicated frame counts as valid.
PassThroughResult(total, df, orphan_indices) ==
    ProcessingResult(total, Len(df), 0, total - Len(df),
                     Cardinality(orphan_indices), EmptyDict)

\* Mutant of SaveQuarantine: the records are appended to the document that
\* is already there.
SaveQuarantineMerges(q, source_name, records) ==
    Put(q, source_name,
        (IF source_name \in DOMAIN q THEN q[source_name] ELSE <<>>) \o records)

\* SilverProcessor._save_quarantine: open(output_path, 'w') and json.dump.
SaveQuarantine(q, source_name, records) == Put(q, source_name, records)

\* ------------------------------------------------------ line-item extraction
Stamp(invoice_id, item) ==
    [invoice_id |-> invoice_id, line_number |-> item.line_number,
     product_id |-> item.product_id]

\* Mutant of ItemsOf: the rows are not filtered by valid_invoice_ids.
ItemsOfAnyInvoice(row, valid_invoice_ids) ==
    IF "line_items_json" \notin DOMAIN row THEN <<>>
    ELSE IF row.line_items_json.kind = "null" \/ row.invoice_id \in {None, ""}
    THEN <<>>
    ELSE IF row.line_items_json.kind = "bad"
    THEN <<>>
    ELSE [j \in 1..Len(row.line_items_json.items) |->
             Stamp(row.invoice_id, row.line_items_json.items[j])]

\* The stamped items of one Bronze invoice row that reach validation: none
\* when the file has no line_items_json column, the row has no JSON or no
\* id, is not a Silver invoice, or its JSON does not parse.
ItemsOf(row, valid_invoice_ids) ==
    IF "line_items_json" \notin DOMAIN row THEN <<>>
    ELSE IF row.line_items_json.kind = "null" \/ row.invoice_id \in {None, ""}
    THEN <<>>
    ELSE IF row.invoice_id \notin valid_invoice_ids
    THEN <<>>
    ELSE IF row.line_items_json.kind = "bad"
    THEN <<>>
    ELSE [j \in 1..Len(row.line_items_json.items) |->
             Stamp(row.invoice_id, row.line_items_json.items[j])]

\* Errors of InvoiceLineItemSchema(**item).
ItemErrors(item) == ValidationErrors("invoice_line_item", item)

RECURSIVE ValidItems(_, _)
ValidItems(items, j) ==
    IF j > Len(items) THEN <<>>
    ELSE (IF ItemErrors(items[j]) = <<>>
          THEN <<ModelDump("invoice_line_item", items[j])>> ELSE <<>>)
         \o ValidItems(items, j + 1)

RECURSIVE QuarantinedItems(_, _)
QuarantinedItems(items, j) ==
    IF j > Len(items) THEN <<>>
    ELSE (IF ItemErrors(items[j]) # <<>>
          THEN <<QRecord(j - 1, items[j], ItemErrors(items[j]))>> ELSE <<>>)
         \o QuarantinedItems(items, j + 1)

\* all_line_items after the loop over bronze_df, rows k..Len(bronze_df).
RECURSIVE AllLineItems(_, _, _)
AllLineItems(bronze_df, valid_invoice_ids, k) ==
    IF k > Len(bronze_df) THEN <<>>
    ELSE ValidItems(ItemsOf(bronze_df[k], valid_invoice_ids), 1)
         \o AllLineItems(bronze_df, valid_invoice_ids, k + 1)

\* quarantined after the loop over bronze_df, rows k..Len(bronze_df).
RECURSIVE QuarantinedLineItems(_, _, _)
QuarantinedLineItems(bronze_df, valid_invoice_ids, k) ==
    IF k > Len(bronze_df) THEN <<>>
    ELSE QuarantinedItems(ItemsOf(bronze_df[k], valid_invoice_ids), 1)
         \o QuarantinedLineItems(bronze_df, valid_invoice_ids, k + 1)

\* ----------------------------------------------------------------- actions
StandardSources(S) == [s \in S |-> ConfiguredSchema(s)]

\* A source entry without a "schema" key: config.get("schema", source_name).
OmitSchema(cfg, source_name) == [cfg EXCEPT ![source_name] = source_name]

StandardSchemasConfig == [n \in StandardSchemas |-> SchemaDef(n)]

\* The configurations a run is started with: the full source registry, and
\* two-source registries in which one source has no "schema" key, so that
\* its schema name is the source name, which has no Pydantic model;
\* schemas.yaml has no entry of that name (vendors) or has one (products);
\* and a registry that configures, beside vendors, a source "returns".
Configs ==
    { <<StandardSources(AllSources), StandardSchemasConfig>>,
      <<Put(StandardSources({"vendors"}), "returns", "return"),
        StandardSchemasConfig>>,
      <<OmitSchema(StandardSources({"vendors", "products"}), "vendors"),
        StandardSchemasConfig>>,
      <<OmitSchema(StandardSources({"vendors", "products"}), "products"),
        Put(StandardSchemasConfig, "products", SchemaDef("product"))>> }

\* No clean_column call has been made.
NoCleanerCall ==
    [field_name |-> None, rule_name |-> None, df |-> <<>>, raised |-> FALSE,
     tz |-> None, out |-> <<>>, changed |-> FALSE]

NoCall ==
    [source_name |-> None, schema_name |-> None, primary_key |-> None,
     raw |-> <<>>, raising |-> {},
     before |-> <<>>, kept |-> <<>>, df |-> <<>>, fk_errors |-> <<>>,
     orphan_indices |-> {}, reads |-> EmptyDict, validated |-> FALSE]

Init ==
    /\ \E c \in Configs : sources = c[1] /\ schemas_config = c[2]
    /\ pc = "loop"
    /\ idx = 1
    /\ bronze = EmptyDict
    /\ silver = EmptyDict
    /\ quarantine = EmptyDict
    /\ valid_keys = EmptyDict
    /\ results = EmptyDict
    /\ cur = NoCall
    /\ run = 1
    /\ first_results = EmptyDict
    /\ cleaner_call = NoCleanerCall

\* The for loop of process_all moves on to the next source.
NextSource ==
    /\ idx' = idx + 1
    /\ pc' = IF idx = Len(ProcessingOrder) THEN "post" ELSE "loop"

\* if source_name not in self.sources: continue
SkipSource ==
    /\ pc = "loop"
    /\ ProcessingOrder[idx] \notin DOMAIN sources
    /\ NextSource
    /\ UNCHANGED <<sources, schemas_config, first_results, cleaner_call, bronze, silver, quarantine,
                   valid_keys, results, cur, run>>

\* Mutant of ProcessMissing: the missing file ends the run.
ProcessMissingAborts ==
    /\ pc = "loop"
    /\ run = 1
    /\ ProcessingOrder[idx] \in DOMAIN sources
    /\ results' = Put(results, ProcessingOrder[idx],
                      ProcessingResult(0, 0, 0, 0, 0, EmptyDict))
    /\ pc' = "done"
    /\ UNCHANGED <<sources, schemas_config, first_results, cleaner_call, idx, bronze,
                   silver, quarantine,
                   valid_keys, cur, run>>

\* _process_source when the Bronze file does not exist.
ProcessMissing ==
    /\ pc = "loop"
    /\ run = 1
    /\ ProcessingOrder[idx] \in DOMAIN sources
    /\ results' = Put(results, ProcessingOrder[idx],
                      ProcessingResult(0, 0, 0, 0, 0, EmptyDict))
    /\ NextSource
    /\ UNCHANGED <<sources, schemas_config, first_results, cleaner_call, bronze, silver, quarantine,
                   valid_keys, cur, run>>

\* _process_source on an existing Bronze file bronze_df, the clean rules of
\* the fields in raising raising an exception and the deduplication
\* returning the rows of the cleaned frame at positions kept.
ProcessCleaned(source_name, bronze_df, raising, kept) ==
    LET schema_name == sources[source_name]
        schema_def == IF schema_name \in DOMAIN schemas_config
                      THEN schemas_config[schema_name] ELSE EmptyDef
        fields == schema_def.fields
        primary_key == schema_def.primary_key
        cleaning == ApplyCleaning(bronze_df, fields, raising, Len(fields))
        df == [k \in 1..Len(kept) |-> cleaning.df[kept[k]]]
        fk_errors == [k \in 1..Len(df) |-> FkErrors(df[k], fields, valid_keys, 1)]
        orphan_indices == {k \in 1..Len(df) : fk_errors[k] # <<>>}
        call == [source_name |-> source_name, schema_name |-> schema_name,
                 primary_key |-> primary_key,
                 raw |-> bronze_df, raising |-> raising,
                 before |-> cleaning.df, kept |-> kept, df |-> df,
                 fk_errors |-> fk_errors, orphan_indices |-> orphan_indices,
                 reads |-> FkReads(df, fields, valid_keys),
                 validated |-> schema_name \in SCHEMA_REGISTRY]
    IN /\ bronze' = Put(bronze, source_name, bronze_df)
       /\ cur' = call
       /\ IF schema_name \notin SCHEMA_REGISTRY
          THEN \* except ValueError: pass every row through
               /\ silver' = Put(silver, source_name, df)
               /\ valid_keys' = CacheValidKeys(valid_keys, schema_name, primary_key, df)
               /\ results' = Put(results, source_name,
                      [PassThroughResult(Len(bronze_df), df, orphan_indices)
                          EXCEPT !.fields_cleaned = cleaning.stats])
               /\ UNCHANGED quarantine
          ELSE LET valid_records == ValidRecords(schema_name, df, fk_errors, 1)
                   quarantined_records == QuarantinedRecords(schema_name, df, fk_errors, 1)
               IN /\ silver' = IF valid_records # <<>>
                               THEN Put(silver, source_name, valid_records)
                               ELSE silver
                  /\ valid_keys' = IF valid_records # <<>>
                                   THEN CacheValidKeys(valid_keys, schema_name,
                                                       primary_key, valid_records)
                                   ELSE valid_keys
                  /\ quarantine' = IF quarantined_records # <<>>
                                   THEN SaveQuarantine(quarantine, source_name,
                                                       quarantined_records)
                                   ELSE quarantine
                  /\ results' = Put(results, source_name,
                         [ProcessingResult(Len(bronze_df), Len(valid_records),
                                           Len(quarantined_records),
                                           Len(bronze_df) - Len(df),
                                           Cardinality(orphan_indices),
                                           ErrorCounts(quarantined_records,
                                                       orphan_indices))
                             EXCEPT !.fields_cleaned = cleaning.stats])

\* The same when no clean rule raises.
ProcessFile(source_name, bronze_df, kept) ==
    ProcessCleaned(source_name, bronze_df, {}, kept)

ProcessSource ==
    /\ pc = "loop"
    /\ run = 1
    /\ ProcessingOrder[idx] \in DOMAIN sources
    /\ \E bronze_df \in Tables(ProcessingOrder[idx], MaxRows - SumLen(bronze, 1)) :
         LET schema_name == sources[ProcessingOrder[idx]]
             primary_key == IF schema_name \in DOMAIN schemas_config
                            THEN schemas_config[schema_name].primary_key ELSE None
         IN \E kept \in Unique(bronze_df, primary_key) :
                ProcessFile(ProcessingOrder[idx], bronze_df, kept)
    /\ NextSource
    /\ UNCHANGED <<sources, schemas_config, first_results, cleaner_call, run>>

\* Mutant of RunsLineItems: the guard does not look at valid_records.
RunsLineItemsAlways == "invoices" \in DOMAIN results

\* The guard of the post-processing step of process_all.
RunsLineItems ==
    /\ "invoices" \in DOMAIN results
    /\ results["invoices"].valid_records > 0

\* _parse_invoice_line_items
ParseInvoiceLineItems ==
    /\ pc = "post"
    /\ RunsLineItems
    /\ pc' = "done"
    /\ IF "invoices" \notin DOMAIN bronze \/ "invoices" \notin DOMAIN silver
       THEN UNCHANGED <<silver, quarantine>>
       ELSE LET bronze_df == bronze["invoices"]
                silver_df == silver["invoices"]
                valid_invoice_ids == {silver_df[k].invoice_id : k \in 1..Len(silver_df)}
                all_line_items == AllLineItems(bronze_df, valid_invoice_ids, 1)
                quarantined == QuarantinedLineItems(bronze_df, valid_invoice_ids, 1)
            IN /\ silver' = IF all_line_items # <<>>
                            THEN Put(silver, "invoice_line_items", all_line_items)
                            ELSE silver
               /\ quarantine' = IF quarantined # <<>>
                                THEN SaveQuarantine(quarantine, "invoice_line_items",
                                                    quarantined)
                                ELSE quarantine
    /\ UNCHANGED <<sources, schemas_config, first_results, cleaner_call, idx, bronze,
                   valid_keys, results, cur, run>>

\* process_all when the post-processing guard is false.
SkipLineItems ==
    /\ pc = "post"
    /\ ~RunsLineItems
    /\ pc' = "done"
    /\ UNCHANGED <<sources, schemas_config, first_results, cleaner_call, idx, bronze,
                   silver, quarantine,
                   valid_keys, results, cur, run>>

Next ==
    \/ SkipSource
    \/ ProcessMissing
    \/ ProcessSource
    \/ ParseInvoiceLineItems
    \/ SkipLineItems

Spec == Init /\ [][Next]_vars

\* ------------------------------------------------ runs into used directories
\* run_pipeline deletes the output directories only when called with fresh
\* (default False); otherwise SilverProcessor.__init__ finds what an earlier
\* run over other input left in them (mkdir(exist_ok=True)).
LeftSilver ==
    Put(Put(Put(EmptyDict, "vendors", <<[vendor_id |-> "K2", rest |-> "ok"]>>),
            "invoices", <<[invoice_id |-> "K1", vendor_id |-> "K2", rest |-> "ok"]>>),
        "invoice_line_items", <<Stamp("K2", Item("1", "K2"))>>)

LeftQuarantine ==
    Put(Put(EmptyDict, "vendors",
            <<QRecord(0, [vendor_id |-> "K1", rest |-> "bad"],
                      <<Err("rest", "value_error")>>)>>),
        "invoice_line_items",
        <<QRecord(1, Stamp("K1", Item(None, "K1")),
                  <<Err("line_number", "int_type")>>)>>)

\* A three-source registry started in the used directories.
UsedInit ==
    /\ sources = StandardSources({"vendors", "products", "invoices"})
    /\ schemas_config = StandardSchemasConfig
    /\ pc = "loop"
    /\ idx = 1
    /\ bronze = EmptyDict
    /\ silver = LeftSilver
    /\ quarantine = LeftQuarantine
    /\ valid_keys = EmptyDict
    /\ results = EmptyDict
    /\ cur = NoCall
    /\ run = 1
    /\ first_results = EmptyDict
    /\ cleaner_call = NoCleanerCall

UsedSpec == UsedInit /\ [][Next]_vars

\* ------------------------------------------- field-level inputs, round trip
\* A customers.csv row that passes CustomerSchema unchanged.
Customer ==
    [customer_id |-> "K1", email |-> "a@b.co", phone |-> "555-1234",
     total_spend |-> "100.0", registration_date |-> "2024-01-15",
     last_purchase_date |-> "2024-01-15", rest |-> "ok"]

\* Rows, as CSV text, that a Bronze file of each source may hold when the
\* columns behind "rest" are spelled out.
DetailRowsOf(source_name) ==
    CASE source_name = "vendors" -> [vendor_id : Keys, rest : RestVals]
      [] source_name = "products" ->
           [product_id : Keys, vendor_id : {"K1"}, price : {"-5.0", "10.0"},
            rest : {"ok"}]
      [] source_name = "customers" ->
           { Customer,
             [Customer EXCEPT !.customer_id = "K2"],
             [Customer EXCEPT !.email = "not-an-email"],
             [Customer EXCEPT !.registration_date = "2099-12-31"],
             [Customer EXCEPT !.last_purchase_date = "2099-12-31"],
             [Customer EXCEPT !.registration_date = "not-a-date"],
             [Customer EXCEPT !.total_spend = "-20.0"],
             [Customer EXCEPT !.phone = "5551234"],
             [Customer EXCEPT !.customer_id = "K2", !.phone = "5551234",
                              !.email = "not-an-email",
                              !.registration_date = "2099-12-31"],
             [Customer EXCEPT !.registration_date = "2099-12-31", !.rest = "bad"] }
      [] source_name = "transactions" ->
           [transaction_id : Keys, customer_id : {"K1"}, product_id : {"K1"},
            quantity : {"-2", "3"}, rest : {"ok"}]
      [] source_name = "invoices" ->
           [invoice_id : Keys, vendor_id : {"K1"}, tax_rate : {"-0.1", "0.5", "1.5"},
            rest : {"ok"},
            line_items_json : {NullJson, JsonList(<<Item("1", "K1")>>)}]
      [] source_name = "reviews" ->
           [review_id : {"K1", " ", ""}, product_id : {"K1"}, customer_id : {"K1"},
            rest : {"ok"}]
      [] source_name = "support_tickets" ->
           [ticket_id : {"K1", " "}, customer_id : {"K1"},
            satisfaction_score : {"3", "7"}, rest : {"ok"}]
      [] source_name = "call_transcripts" ->
           [call_id : {"K1", " "}, customer_id : {"K1"},
            quality_score : {"50.0", "150.0"}, rest : {"ok"}]

\* Bronze CSV files of at least one and at most n rows.
DetailTables(source_name, n) ==
    UNION {[1..k -> DetailRowsOf(source_name)] : k \in 1..n}

\* Registries of one source each, and one of vendors and products.
RoundConfigs ==
    {StandardSources({s}) : s \in AllSources \ {"vendors"}}
       \cup {StandardSources({"vendors", "products"})}

RoundInit ==
    /\ sources \in RoundConfigs
    /\ schemas_config = StandardSchemasConfig
    /\ pc = "loop"
    /\ idx = 1
    /\ bronze = EmptyDict
    /\ silver = EmptyDict
    /\ quarantine = EmptyDict
    /\ valid_keys = EmptyDict
    /\ results = EmptyDict
    /\ cur = NoCall
    /\ run = 1
    /\ first_results = EmptyDict
    /\ cleaner_call = NoCleanerCall

\* _process_source of run 1 on an existing Bronze CSV file.
ProcessDetailed ==
    /\ pc = "loop"
    /\ run = 1
    /\ ProcessingOrder[idx] \in DOMAIN sources
    /\ \E file \in DetailTables(ProcessingOrder[idx], MaxRows - SumLen(bronze, 1)) :
         LET schema_name == sources[ProcessingOrder[idx]]
             primary_key == IF schema_name \in DOMAIN schemas_config
                            THEN schemas_config[schema_name].primary_key ELSE None
         IN \E kept \in Unique(ReadCsv(file), primary_key) :
                ProcessFile(ProcessingOrder[idx], ReadCsv(file), kept)
    /\ NextSource
    /\ UNCHANGED <<sources, schemas_config, first_results, cleaner_call, run>>

\* A second SilverProcessor is constructed whose bronze_dir holds the Silver
\* CSV files run 1 wrote, with empty output directories.
Rerun ==
    /\ pc = "done"
    /\ run = 1
    /\ run' = 2
    /\ pc' = "loop"
    /\ idx' = 1
    /\ bronze' = [s \in DOMAIN silver |-> ReadCsv(WriteCsv(silver[s]))]
    /\ silver' = EmptyDict
    /\ quarantine' = EmptyDict
    /\ valid_keys' = EmptyDict
    /\ results' = EmptyDict
    /\ cur' = NoCall
    /\ UNCHANGED <<sources, schemas_config, first_results, cleaner_call>>

\* _process_source of run 2 on the file run 1 wrote for the source.
ReprocessSource ==
    /\ pc = "loop"
    /\ run = 2
    /\ ProcessingOrder[idx] \in DOMAIN sources
    /\ ProcessingOrder[idx] \in DOMAIN bronze
    /\ LET schema_name == sources[ProcessingOrder[idx]]
           primary_key == IF schema_name \in DOMAIN schemas_config
                          THEN schemas_config[schema_name].primary_key ELSE None
       IN \E kept \in Unique(bronze[ProcessingOrder[idx]], primary_key) :
              ProcessFile(ProcessingOrder[idx], bronze[ProcessingOrder[idx]], kept)
    /\ NextSource
    /\ UNCHANGED <<sources, schemas_config, first_results, cleaner_call, run>>

\* _process_source of run 2 for a source run 1 wrote no file for.
ReprocessMissing ==
    /\ pc = "loop"
    /\ run = 2
    /\ ProcessingOrder[idx] \in DOMAIN sources
    /\ ProcessingOrder[idx] \notin DOMAIN bronze
    /\ results' = Put(results, ProcessingOrder[idx],
                      ProcessingResult(0, 0, 0, 0, 0, EmptyDict))
    /\ NextSource
    /\ UNCHANGED <<sources, schemas_config, first_results, cleaner_call, bronze, silver, quarantine,
                   valid_keys, cur, run>>

RoundNext ==
    \/ SkipSource
    \/ ProcessMissing
    \/ ProcessDetailed
    \/ ParseInvoiceLineItems
    \/ SkipLineItems
    \/ Rerun
    \/ ReprocessSource
    \/ ReprocessMissing

RoundTripSpec == RoundInit /\ [][RoundNext]_vars

\* ------------------------------------------------------ clean rules at work
\* A customers.csv row with the columns the clean rules below apply to.
CleanCustomer ==
    [customer_id |-> "K1", email |-> "a@b.co", phone |-> "555-1234",
     total_spend |-> "100.0", registration_date |-> "2024-01-15",
     last_purchase_date |-> "2024-01-15", segment |-> "vip gold",
     is_active |-> "Yes", rest |-> "ok"]

\* The fields of the customer schema in schemas.yaml, one declaration of
\* clean rules per configuration: each rule name of the registry, a name
\* the registry lacks, and two cleaned fields.
CleanConfigs ==
    {<<Clean("email", "lowercase")>>,
     <<Clean("customer_id", "uppercase")>>,
     <<Clean("phone", "phone_normalize")>>,
     <<Clean("registration_date", "date_iso")>>,
     <<Clean("segment", "titlecase")>>,
     <<Clean("segment", "string_clean")>>,
     <<Clean("is_active", "boolean_normalize")>>,
     <<Clean("email", "no_such_rule")>>,
     <<Clean("email", "lowercase"), Clean("phone", "phone_normalize")>>}

\* The texts a customers.csv file may hold in a column.
CleanValues(c) ==
    CASE c = "customer_id" -> {"K1", "k1"}
      [] c = "email" -> {"a@b.co", "A@B.CO"}
      [] c = "phone" -> {"555-1234", "5551234"}
      [] c = "registration_date" -> {"2024-01-15", "01/15/2024", "20240115"}
      [] c = "segment" -> {"vip gold", " vip  gold "}
      [] c = "is_active" -> {"Yes", "no", "maybe"}
      [] OTHER -> {CleanCustomer[c]}

\* Rows, as CSV text, of a customers.csv file whose schema declares fields:
\* the columns with a clean rule vary, and so does the key.
CleanRowsOf(fields) ==
    LET cleaned == {fields[j].name : j \in 1..Len(fields)}
        Col(c) == IF c \in cleaned THEN CleanValues(c)
                  ELSE IF c = "customer_id" THEN Keys
                  ELSE {CleanCustomer[c]}
    IN [customer_id : Col("customer_id"), email : Col("email"),
        phone : Col("phone"), total_spend : Col("total_spend"),
        registration_date : Col("registration_date"),
        last_purchase_date : Col("last_purchase_date"),
        segment : Col("segment"), is_active : Col("is_active"),
        rest : Col("rest")]

CleanTables(fields, n) == UNION {[1..k -> CleanRowsOf(fields)] : k \in 1..n}

CleanInit ==
    /\ sources = StandardSources({"customers"})
    /\ \E fields \in CleanConfigs :
          schemas_config = [n \in {"customer"} |->
                               [primary_key |-> "customer_id", fields |-> fields]]
    /\ pc = "loop"
    /\ idx = 1
    /\ bronze = EmptyDict
    /\ silver = EmptyDict
    /\ quarantine = EmptyDict
    /\ valid_keys = EmptyDict
    /\ results = EmptyDict
    /\ cur = NoCall
    /\ run = 1
    /\ first_results = EmptyDict
    /\ cleaner_call = NoCleanerCall

\* _process_source on an existing Bronze CSV file; any of the declared clean
\* rules may raise.
ProcessCleanedSource ==
    /\ pc = "loop"
    /\ run = 1
    /\ ProcessingOrder[idx] \in DOMAIN sources
    /\ LET source_name == ProcessingOrder[idx]
           schema_def == schemas_config[sources[source_name]]
           fields == schema_def.fields
       IN \E file \in CleanTables(fields, MaxRows - SumLen(bronze, 1)) :
          \E raising \in SUBSET {fields[j].name : j \in 1..Len(fields)} :
          \E kept \in Unique(ApplyCleaning(ReadCsv(file), fields, raising,
                                           Len(fields)).df,
                             schema_def.primary_key) :
             ProcessCleaned(source_name, ReadCsv(file), raising, kept)
    /\ NextSource
    /\ UNCHANGED <<sources, schemas_config, run, first_results, cleaner_call>>

\* SilverCleaner(cleaning_rules).clean_column is called on the frame read
\* from customers.csv, for a field that declares a clean rule, with that
\* rule name or one the registry lacks.
CleanColumnCall ==
    /\ pc = "done"
    /\ cleaner_call = NoCleanerCall
    /\ "customers" \in DOMAIN bronze
    /\ LET fields == schemas_config["customer"].fields
           df == bronze["customers"]
       IN \E j \in 1..Len(fields) :
          \E rule_name \in {fields[j].clean, "no_such_rule"} :
          \E raises \in BOOLEAN :
          \E tz \in TimeZones :
             LET r == CleanColumn(Rules, df, fields[j].name, rule_name, raises, tz)
             IN cleaner_call' =
                   [field_name |-> fields[j].name, rule_name |-> rule_name,
                    df |-> df, raised |-> raises, tz |-> tz,
                    out |-> r.df, changed |-> r.changed]
    /\ UNCHANGED <<sources, schemas_config, pc, idx, bronze, silver, quarantine,
                   valid_keys, results, cur, run, first_results>>

CleanNext ==
    \/ SkipSource
    \/ ProcessMissing
    \/ ProcessCleanedSource
    \/ SkipLineItems
    \/ CleanColumnCall

CleanSpec == CleanInit /\ [][CleanNext]_vars

\* ------------------------------------------------- two runs on one input
\* run_pipeline(fresh=True) is called again on the same input: the output
\* directories are deleted, the Bronze files are the same, and a new
\* SilverProcessor starts with an empty key cache.
RunAgain ==
    /\ pc = "done"
    /\ run = 1
    /\ run' = 2
    /\ first_results' = results
    /\ pc' = "loop"
    /\ idx' = 1
    /\ silver' = EmptyDict
    /\ quarantine' = EmptyDict
    /\ valid_keys' = EmptyDict
    /\ results' = EmptyDict
    /\ cur' = NoCall
    /\ UNCHANGED <<sources, schemas_config, bronze, cleaner_call>>

\* The first of the two runs starts in empty output directories.
TwiceInit ==
    /\ sources = StandardSources({"vendors", "invoices"})
    /\ schemas_config = StandardSchemasConfig
    /\ pc = "loop"
    /\ idx = 1
    /\ bronze = EmptyDict
    /\ silver = EmptyDict
    /\ quarantine = EmptyDict
    /\ valid_keys = EmptyDict
    /\ results = EmptyDict
    /\ cur = NoCall
    /\ run = 1
    /\ first_results = EmptyDict
    /\ cleaner_call = NoCleanerCall

TwiceNext ==
    \/ SkipSource
    \/ ProcessMissing
    \/ ProcessSource
    \/ ParseInvoiceLineItems
    \/ SkipLineItems
    \/ RunAgain
    \/ ReprocessSource
    \/ ReprocessMissing

TwiceSpec == TwiceInit /\ [][TwiceNext]_vars

\* ================================================================== claims
\* Helpers of the properties below.
PKs(df, primary_key) == {df[k][primary_key] : k \in 1..Len(df)}

Pos(source_name) == CHOOSE i \in 1..Len(ProcessingOrder) : ProcessingOrder[i] = source_name

SourcesOf(schema_name) == {s \in DOMAIN sources : sources[s] = schema_name}

CurFields ==
    IF cur.schema_name \in DOMAIN schemas_config
    THEN schemas_config[cur.schema_name].fields ELSE <<>>

Called == cur.source_name # None

\* Row k of the frame of the latest call sits in that source's quarantine
\* document with a referential-integrity error.
RIQuarantined(k) ==
    /\ cur.source_name \in DOMAIN quarantine
    /\ \E i \in 1..Len(quarantine[cur.source_name]) :
         LET q == quarantine[cur.source_name][i] IN
         /\ q.row_index = k - 1
         /\ q.record = cur.df[k]
         /\ \E e \in 1..Len(q.errors) : q.errors[e].type = "referential_integrity"

\* Some foreign-key field of row k holds a non-empty value that is absent
\* from the non-empty cache of the field's target.
DanglingReference(k) ==
    \E j \in 1..Len(CurFields) :
       LET f == CurFields[j]
           v == cur.df[k][f.name]
       IN /\ v \notin {None, ""}
          /\ f.foreign_key \in DOMAIN valid_keys
          /\ valid_keys[f.foreign_key] # {}
          /\ v \notin valid_keys[f.foreign_key]

\* C1: every entity result satisfies total_records = duplicates_removed +
\* valid_records + quarantined_records, whatever the input.
C1_CountsAddUp ==
    \A s \in DOMAIN results :
       results[s].total_records =
          results[s].duplicates_removed + results[s].valid_records
             + results[s].quarantined_records

\* C1 witness: a finished run with a result that counts a duplicate, a valid
\* and a quarantined row.
C1_Witness ==
    /\ \E s \in DOMAIN results :
          /\ results[s].duplicates_removed > 0
          /\ results[s].valid_records > 0
          /\ results[s].quarantined_records > 0
    /\ pc = "done"

\* C2: a post-dedup row is quarantined for referential integrity if and
\* only if one of its foreign-key fields holds a non-empty value absent from
\* the non-empty key cache of its target.
C2_OrphanIffDangling ==
    Called => \A k \in 1..Len(cur.df) : RIQuarantined(k) <=> DanglingReference(k)

\* C3: deduplication is keep-first: the frame after it holds every
\* primary-key value of the input once, each kept row is the earliest input
\* row of its key, and duplicates_removed is the number of rows dropped.
C3_KeepFirst ==
    (Called /\ cur.primary_key # None) =>
       LET pk == cur.primary_key IN
       /\ \A a, b \in 1..Len(cur.df) : a # b => cur.df[a][pk] # cur.df[b][pk]
       /\ PKs(cur.df, pk) = PKs(cur.before, pk)
       /\ \A a \in 1..Len(cur.df) :
             \E i \in 1..Len(cur.before) :
                /\ cur.df[a] = cur.before[i]
                /\ \A j \in 1..(i - 1) : cur.before[j][pk] # cur.df[a][pk]
       /\ results[cur.source_name].duplicates_removed = Len(cur.before) - Len(cur.df)
       /\ results[cur.source_name].duplicates_removed
             = Len(cur.before) - Cardinality(PKs(cur.before, pk))

\* C3 witness: a file whose first two rows share the key and differ, its
\* third row having another key.
C3_Witness ==
    /\ Called /\ cur.primary_key # None
    /\ Len(cur.before) = 3 /\ Len(cur.df) = 2
    /\ cur.before[1][cur.primary_key] = cur.before[2][cur.primary_key]
    /\ cur.before[1] # cur.before[2]

\* C4: every row counted in orphaned_records is in the entity's quarantine
\* with a referential-integrity error naming field, value and target, is in
\* neither the valid output nor the key cache, and orphaned_records <=
\* quarantined_records.
C4_OrphansQuarantined ==
    Called =>
       /\ results[cur.source_name].orphaned_records = Cardinality(cur.orphan_indices)
       /\ results[cur.source_name].orphaned_records
             <= results[cur.source_name].quarantined_records
       /\ \A k \in cur.orphan_indices :
             /\ RIQuarantined(k)
             /\ \A i \in 1..Len(quarantine[cur.source_name]) :
                   quarantine[cur.source_name][i].row_index = k - 1 =>
                      \A e \in 1..Len(quarantine[cur.source_name][i].errors) :
                         LET err == quarantine[cur.source_name][i].errors[e] IN
                         /\ err.type = "referential_integrity"
                         /\ err.value = cur.df[k][err.field]
                         /\ \E j \in 1..Len(CurFields) :
                               CurFields[j] = FK(err.field, err.target)
             /\ cur.primary_key # None =>
                   /\ cur.source_name \in DOMAIN silver =>
                         cur.df[k][cur.primary_key]
                            \notin PKs(silver[cur.source_name], cur.primary_key)
                   /\ cur.schema_name \in DOMAIN valid_keys =>
                         cur.df[k][cur.primary_key] \notin valid_keys[cur.schema_name]

\* C5: every cache entry the foreign-key check reads is either absent (the
\* target has no Silver output) or exactly the primary keys of the target's
\* persisted valid rows.
C5_CompleteSnapshot ==
    Called =>
       \A t \in DOMAIN cur.reads :
          LET persisted == {s \in SourcesOf(t) : s \in DOMAIN silver} IN
          IF persisted = {}
          THEN cur.reads[t] = {}
          ELSE \A s \in persisted :
                  cur.reads[t] = PKs(silver[s], schemas_config[t].primary_key)

\* C5 witness: the check read an entry of two keys.
C5_Witness ==
    /\ Called
    /\ \E t \in DOMAIN cur.reads : Cardinality(cur.reads[t]) = 2

\* C6: a key-cache entry is created at most once, in the step that persists
\* its entity's valid output, and no later step adds to it, removes from it
\* or replaces it.
C6_CacheWriteOnce ==
    [][ /\ \A t \in DOMAIN valid_keys :
             t \in DOMAIN valid_keys' /\ valid_keys'[t] = valid_keys[t]
        /\ \A t \in (DOMAIN valid_keys') \ (DOMAIN valid_keys) :
             /\ pc = "loop"
             /\ sources[ProcessingOrder[idx]] = t
             /\ silver'[ProcessingOrder[idx]]
                   # (IF ProcessingOrder[idx] \in DOMAIN silver
                      THEN silver[ProcessingOrder[idx]] ELSE <<>>)
             /\ valid_keys'[t] = PKs(silver'[ProcessingOrder[idx]],
                                     schemas_config[t].primary_key)
      ]_vars

\* C6 witness: the run is over, line items were extracted, and two entries
\* are in the cache.
C6_Witness ==
    /\ pc = "done"
    /\ "invoice_line_items" \in DOMAIN silver
    /\ Cardinality(DOMAIN valid_keys) >= 2

\* The order process_all is specified to follow.
SpecifiedOrder ==
    << "vendors", "products", "customers", "transactions", "invoices",
       "reviews", "support_tickets", "call_transcripts" >>

\* C7: the sources that have a result are exactly the configured ones among
\* the first idx - 1 of the specified order, and the target of every
\* declared foreign key of a processed source comes earlier in the order.
C7_FixedOrder ==
    /\ DOMAIN results = {SpecifiedOrder[i] : i \in 1..(idx - 1)} \cap DOMAIN sources
    /\ pc # "loop" => idx = Len(SpecifiedOrder) + 1
    /\ \A s \in DOMAIN results :
          LET fields == IF sources[s] \in DOMAIN schemas_config
                        THEN schemas_config[sources[s]].fields ELSE <<>>
          IN \A j \in 1..Len(fields) :
                /\ \E t \in AllSources :
                      ConfiguredSchema(t) = fields[j].foreign_key /\ Pos(t) < Pos(s)
                /\ \A t \in SourcesOf(fields[j].foreign_key) : t \in DOMAIN results
    /\ Called => \A t \in DOMAIN cur.reads :
                    \A s \in SourcesOf(t) : Pos(s) < Pos(cur.source_name)

\* C7 witness: the run is over and a source with two foreign keys read the
\* cache entries of both targets.
C7_Witness ==
    /\ pc = "done"
    /\ cur.source_name = "transactions"
    /\ \A t \in DOMAIN cur.reads : cur.reads[t] # {}
    /\ DOMAIN results = AllSources

\* C8: every record of every quarantine document has a row_index and a
\* non-empty errors list.
C8_QuarantineHasErrors ==
    \A n \in DOMAIN quarantine :
       \A i \in 1..Len(quarantine[n]) :
          /\ "row_index" \in DOMAIN quarantine[n][i]
          /\ quarantine[n][i].row_index \in Nat
          /\ "errors" \in DOMAIN quarantine[n][i]
          /\ Len(quarantine[n][i].errors) > 0

\* C8 witness: an entity quarantine with an orphaned row and the line-item
\* quarantine both exist.
C8_Witness ==
    /\ "invoice_line_items" \in DOMAIN quarantine
    /\ "invoices" \in DOMAIN quarantine

LineItemInvoiceIds ==
    (IF "invoice_line_items" \in DOMAIN silver
     THEN {silver["invoice_line_items"][i].invoice_id :
              i \in 1..Len(silver["invoice_line_items"])} ELSE {})
    \cup
    (IF "invoice_line_items" \in DOMAIN quarantine
     THEN {quarantine["invoice_line_items"][i].record.invoice_id :
              i \in 1..Len(quarantine["invoice_line_items"])} ELSE {})

\* C9: every line item, emitted or quarantined, belongs to an invoice of the
\* Invoice valid set, and a quarantined invoice contributes none.
C9_LineItemsOfValidInvoices ==
    /\ LineItemInvoiceIds # {} =>
          /\ "invoices" \in DOMAIN silver
          /\ LineItemInvoiceIds \subseteq PKs(silver["invoices"], "invoice_id")
    /\ "invoices" \in DOMAIN quarantine =>
          \A i \in 1..Len(quarantine["invoices"]) :
             quarantine["invoices"][i].record.invoice_id \notin LineItemInvoiceIds

\* C9 witness: line items were emitted while an invoice whose item array
\* parses sits in quarantine for a bad vendor reference.
C9_Witness ==
    /\ pc = "done"
    /\ "invoice_line_items" \in DOMAIN silver
    /\ "invoices" \in DOMAIN quarantine
    /\ \E i \in 1..Len(quarantine["invoices"]) :
          /\ quarantine["invoices"][i].record.line_items_json.kind = "list"
          /\ quarantine["invoices"][i].errors[1].type = "referential_integrity"

\* C10: a line item whose product_id is not a valid Product key is not in
\* the valid line-item output but in the line-item quarantine with a
\* referential_integrity error.
C10_LineItemProductFK ==
    (pc = "done" /\ "product" \in DOMAIN valid_keys) =>
       /\ "invoice_line_items" \in DOMAIN silver =>
             \A i \in 1..Len(silver["invoice_line_items"]) :
                silver["invoice_line_items"][i].product_id
                   \in valid_keys["product"] \cup {None}
       /\ "invoices" \in DOMAIN bronze /\ "invoices" \in DOMAIN silver =>
             \A k \in 1..Len(bronze["invoices"]) :
                LET items == ItemsOf(bronze["invoices"][k],
                                     PKs(silver["invoices"], "invoice_id"))
                IN \A j \in 1..Len(items) :
                      items[j].product_id \notin valid_keys["product"] \cup {None} =>
                         /\ "invoice_line_items" \in DOMAIN quarantine
                         /\ \E q \in 1..Len(quarantine["invoice_line_items"]) :
                               LET rec == quarantine["invoice_line_items"][q] IN
                               /\ rec.record = items[j]
                               /\ \E e \in 1..Len(rec.errors) :
                                     rec.errors[e].type = "referential_integrity"

\* The configured sources that _get_processing_order lists.
ListedSources == DOMAIN sources \cap AllSources

\* C13: a source whose Bronze file is missing gets a result whose counts are
\* all zero, no cache entry, Silver file or quarantine document is written
\* for it, and the run goes on to every remaining source of the order.
C13_MissingFileEmptyResult ==
    /\ \A s \in DOMAIN results :
          s \notin DOMAIN bronze =>
             /\ results[s].total_records = 0
             /\ results[s].valid_records = 0
             /\ results[s].quarantined_records = 0
             /\ results[s].duplicates_removed = 0
             /\ results[s].orphaned_records = 0
             /\ s \notin DOMAIN silver
             /\ s \notin DOMAIN quarantine
             /\ sources[s] \notin DOMAIN valid_keys
    /\ pc = "done" => \A s \in ListedSources : s \in DOMAIN results

\* C13 witness: the run is over; the file of one source was missing and a
\* later source was processed from its file and has valid rows.
C13_Witness ==
    /\ pc = "done"
    /\ \E s, t \in DOMAIN results :
          /\ s \notin DOMAIN bronze
          /\ t \in DOMAIN bronze
          /\ Pos(s) < Pos(t)
          /\ results[t].valid_records > 0

\* C14: when no validation schema is registered for the schema name,
\* validation is skipped, every row of the deduplicated frame is written and
\* counted as valid, none is quarantined, and the run goes on.
C14_UnknownSchemaPassThrough ==
    /\ (Called /\ cur.schema_name \notin SCHEMA_REGISTRY) =>
          LET r == results[cur.source_name] IN
          /\ r.valid_records = Len(cur.df)
          /\ r.valid_records = r.total_records - r.duplicates_removed
          /\ r.quarantined_records = 0
          /\ cur.source_name \notin DOMAIN quarantine
          /\ silver[cur.source_name] = cur.df
          /\ idx > Pos(cur.source_name)
    /\ pc = "done" => \A s \in ListedSources : s \in DOMAIN results

\* C14 witness: the run is over, vendors had no registered schema and were
\* passed through, and products were processed after them.
C14_Witness ==
    /\ pc = "done"
    /\ "vendors" \in DOMAIN results
    /\ sources["vendors"] \notin SCHEMA_REGISTRY
    /\ results["vendors"].valid_records > 0
    /\ "products" \in DOMAIN results
    /\ results["products"].total_records > 0

\* C15: when process_all returns, every source of the source registry has a
\* result with its counts and pass rate.
C15_ResultForEveryConfigured ==
    pc = "done" =>
       \A s \in DOMAIN sources :
          /\ s \in DOMAIN results
          /\ PassRate(results[s]).den > 0

\* C18: every result has 0 <= pass_rate <= 1, pass_rate being valid_records
\* / total_records, and 0 when total_records = 0; valid_records never
\* exceeds total_records.
C18_PassRateBounds ==
    \A s \in DOMAIN results :
       LET r == results[s]
           pr == PassRate(r)
       IN /\ pr.den > 0
          /\ 0 <= pr.num /\ pr.num <= pr.den
          /\ r.total_records = 0 => pr.num = 0
          /\ r.total_records # 0 =>
                pr.num * r.total_records = r.valid_records * pr.den
          /\ r.valid_records <= r.total_records

\* C18 witness: the run is over with a result of an empty source and a
\* result whose pass rate lies strictly between 0 and 1.
C18_Witness ==
    /\ pc = "done"
    /\ \E s, t \in DOMAIN results :
          /\ results[s].total_records = 0
          /\ 0 < results[t].valid_records
          /\ results[t].valid_records < results[t].total_records

\* C19 as stated: pass_rate = 0 if and only if total_records = 0.
C19_ZeroIffEmpty ==
    \A s \in DOMAIN results :
       PassRate(results[s]).num = 0 <=> results[s].total_records = 0

\* C19 amended: total_records = 0 implies pass_rate = 0, and pass_rate = 0
\* if and only if valid_records = 0.
C19_ZeroIffNoValid ==
    \A s \in DOMAIN results :
       /\ results[s].total_records = 0 => PassRate(results[s]).num = 0
       /\ PassRate(results[s]).num = 0 <=> results[s].valid_records = 0

\* C19 witness: a source with rows, all of them quarantined.
C19_Witness ==
    \E s \in DOMAIN results :
       /\ results[s].total_records > 0
       /\ results[s].valid_records = 0
       /\ results[s].quarantined_records = results[s].total_records

\* C16: when the run is over, each processed source's Silver file holds
\* exactly the rows the run classified valid, and its quarantine document
\* exists if and only if the run quarantined a row of it, and then holds
\* exactly the quarantined rows, whatever an earlier run left behind.
C16_ArtifactsReflectRun ==
    pc = "done" =>
       \A s \in DOMAIN results :
          /\ IF results[s].valid_records > 0
             THEN s \in DOMAIN silver /\ Len(silver[s]) = results[s].valid_records
             ELSE s \notin DOMAIN silver
          /\ IF results[s].quarantined_records > 0
             THEN /\ s \in DOMAIN quarantine
                  /\ Len(quarantine[s]) = results[s].quarantined_records
             ELSE s \notin DOMAIN quarantine

\* The record list the step at hand hands to the sink for document n, <<>>
\* when the step makes no such call.
SinkCall(n) ==
    IF pc = "loop" /\ n = ProcessingOrder[idx] /\ n \in DOMAIN results'
          /\ n \in DOMAIN bronze' /\ cur'.validated
    THEN QuarantinedRecords(cur'.schema_name, cur'.df, cur'.fk_errors, 1)
    ELSE IF pc = "post" /\ n = "invoice_line_items" /\ RunsLineItems
    THEN QuarantinedLineItems(bronze["invoices"],
                              PKs(silver["invoices"], "invoice_id"), 1)
    ELSE <<>>

\* C17: a step that calls the sink for an entity leaves exactly the records
\* of that call in the entity's document, whatever the document held before,
\* and no step changes the document of an entity it makes no call for.
C17_SinkOverwrites ==
    [][ /\ DOMAIN quarantine \subseteq DOMAIN quarantine'
        /\ \A n \in DOMAIN quarantine' :
              IF SinkCall(n) # <<>>
              THEN quarantine'[n] = SinkCall(n)
              ELSE n \in DOMAIN quarantine /\ quarantine'[n] = quarantine[n]
      ]_vars

\* C17 witness: the vendors document of this run differs from the one found
\* at the start and the line-item document is still the one found.
C17_Witness ==
    /\ pc = "done"
    /\ LeftQuarantine # EmptyDict
    /\ quarantine["vendors"] # LeftQuarantine["vendors"]
    /\ \A i \in 1..Len(quarantine["vendors"]) :
          quarantine["vendors"][i].record.vendor_id # "K1"
    /\ quarantine["invoice_line_items"] = LeftQuarantine["invoice_line_items"]
    /\ "invoices" \in DOMAIN quarantine

\* C20: in the run that is fed the valid output of a first run, every
\* result has duplicates_removed = 0 and quarantined_records = 0.
C20_RoundTrip ==
    run = 2 =>
       \A s \in DOMAIN results :
          /\ results[s].duplicates_removed = 0
          /\ results[s].quarantined_records = 0

\* The value v of field d is soft-invalid: a malformed email, a date after
\* today, a tax rate outside 0..1.
SoftInvalid(d, v) ==
    /\ v \notin {None, ""}
    /\ \/ d.kind = "email" /\ v \notin WellFormedEmails
       \/ d.kind = "date" /\ v \in FutureDates
       \/ d.kind = "tax_rate" /\ (Float(Str(v)) < 0 \/ Float(Str(v)) > 10)

\* The quarantine records of the latest call that stand for row k.
CurQuarantined(k) ==
    IF cur.source_name \notin DOMAIN quarantine THEN {}
    ELSE {i \in 1..Len(quarantine[cur.source_name]) :
             quarantine[cur.source_name][i].row_index = k - 1}

EmptyIds == {None, "", " "}

\* The fields of row r whose value the business-exception policy rejects: a
\* negative product price, a satisfaction score outside 1..5, a quality
\* score outside 0..100, an empty required identifier.
RejectedFields(schema_name, r) ==
    {f \in DOMAIN r \ {"line_items_json"} :
        \/ /\ r[f] # None
           /\ \/ schema_name = "product" /\ f = "price" /\ Float(Str(r[f])) < 0
              \/ /\ schema_name = "support_ticket" /\ f = "satisfaction_score"
                 /\ (Float(Str(r[f])) < 10 \/ Float(Str(r[f])) > 50)
              \/ /\ schema_name = "call_transcript" /\ f = "quality_score"
                 /\ (Float(Str(r[f])) < 0 \/ Float(Str(r[f])) > 1000)
        \/ /\ r[f] \in EmptyIds
           /\ \E j \in 1..Len(PydanticFields(schema_name)) :
                 /\ PydanticFields(schema_name)[j].name = f
                 /\ PydanticFields(schema_name)[j].required}

\* The fields of row r that hold a tolerated negative: a customer's
\* total_spend, a transaction's quantity.
ToleratedFields(schema_name, r) ==
    {f \in DOMAIN r \ {"line_items_json"} :
        /\ r[f] # None
        /\ \/ schema_name = "customer" /\ f = "total_spend"
           \/ schema_name = "transaction" /\ f = "quantity"
        /\ Float(Str(r[f])) < 0}

\* Some quarantine record of row k of the latest call has an error on
\* field f.
QuarantinedOn(k, f) ==
    \E i \in CurQuarantined(k) :
       \E e \in 1..Len(quarantine[cur.source_name][i].errors) :
          quarantine[cur.source_name][i].errors[e].field = f

\* C12: a non-orphaned row with a rejected field is quarantined with a
\* schema-field error on that field, while a tolerated negative carries no
\* error and, in a row without another fault, leaves the row out of
\* quarantine.
C12_PerFieldPolicy ==
    (Called /\ cur.validated) =>
       \A k \in 1..Len(cur.df) :
          LET r == cur.df[k] IN
          /\ cur.fk_errors[k] = <<>> =>
                \A f \in RejectedFields(cur.schema_name, r) : QuarantinedOn(k, f)
          /\ \A f \in ToleratedFields(cur.schema_name, r) :
                /\ ~QuarantinedOn(k, f)
                /\ (/\ cur.fk_errors[k] = <<>>
                    /\ ValidationErrors(cur.schema_name,
                                        [r EXCEPT ![f] = None]) = <<>>)
                   => CurQuarantined(k) = {}

\* The quarantine records of the latest call that stand for rows without
\* a referential-integrity error.
CurInvalidRecords ==
    IF cur.source_name \notin DOMAIN quarantine THEN <<>>
    ELSE SelectSeq(quarantine[cur.source_name],
                   LAMBDA q : (q.row_index + 1) \notin cur.orphan_indices)

\* C25: an orphaned row of an entity with a registered schema has exactly
\* one quarantine record, whose errors are its referential-integrity errors
\* and nothing else, also when the row violates a field constraint; every
\* other kind of error_counts counts only the errors of rows that are not
\* orphaned.
C25_OrphanSkipsValidation ==
    (Called /\ cur.validated) =>
       /\ \A k \in 1..Len(cur.df) :
             cur.fk_errors[k] # <<>> =>
                /\ Cardinality(CurQuarantined(k)) = 1
                /\ \A i \in CurQuarantined(k) :
                      LET q == quarantine[cur.source_name][i] IN
                      /\ q.errors = cur.fk_errors[k]
                      /\ \A e \in 1..Len(q.errors) :
                            q.errors[e].type = "referential_integrity"
       /\ \A t \in DOMAIN results[cur.source_name].error_counts :
             t # "referential_integrity" =>
                results[cur.source_name].error_counts[t]
                   = SumTypes(CurInvalidRecords, t, 1)

\* An orphaned row that also violates a field constraint is quarantined.
C25_Witness ==
    /\ Called
    /\ cur.validated
    /\ \E k \in 1..Len(cur.df) :
          /\ cur.fk_errors[k] # <<>>
          /\ ValidationErrors(cur.schema_name, cur.df[k]) # <<>>
          /\ CurQuarantined(k) # {}
    /\ "referential_integrity" \in DOMAIN results[cur.source_name].error_counts

\* C29: for every entity and every error kind, error_counts[kind] is the
\* number of error entries of that kind in the entity's quarantine records,
\* and error_counts has no other kind.
C29_ErrorCountsPerEntry ==
    \A s \in DOMAIN results :
       LET qrecs == IF s \in DOMAIN quarantine THEN quarantine[s] ELSE <<>>
           kinds == UNION {{qrecs[k].errors[j].type : j \in 1..Len(qrecs[k].errors)} :
                             k \in 1..Len(qrecs)}
       IN /\ DOMAIN results[s].error_counts = kinds
          /\ \A t \in kinds : results[s].error_counts[t] = SumTypes(qrecs, t, 1)

\* The file of d named s, no rows when there is none.
FileOf(d, s) == IF s \in DOMAIN d THEN d[s] ELSE <<>>

\* Every row of the latest call with a registered schema was dropped as a
\* duplicate or is in exactly one terminal state: the kept rows are split
\* between the valid set and the quarantine records, each quarantine record
\* stands for a different kept row and is either Orphaned (referential-
\* integrity errors only) or Invalid (schema errors only), and no primary
\* key is both valid and quarantined.
RowStates ==
    (Called /\ cur.validated) =>
       LET src == cur.source_name
           v == FileOf(silver, src)
           q == FileOf(quarantine, src)
       IN /\ Len(cur.df) + results[src].duplicates_removed = Len(cur.before)
          /\ Len(v) + Len(q) = Len(cur.df)
          /\ results[src].valid_records = Len(v)
          /\ results[src].quarantined_records = Len(q)
          /\ \A i \in 1..Len(q) :
                /\ q[i].row_index \in 0..(Len(cur.df) - 1)
                /\ \A j \in 1..Len(q) : i # j => q[i].row_index # q[j].row_index
                /\ \/ \A e \in 1..Len(q[i].errors) :
                         q[i].errors[e].type = "referential_integrity"
                   \/ \A e \in 1..Len(q[i].errors) :
                         q[i].errors[e].type # "referential_integrity"
          /\ (cur.primary_key # None /\ cur.primary_key \in Columns(cur.df)) =>
                \A i \in 1..Len(v) : \A j \in 1..Len(q) :
                   v[i][cur.primary_key] # q[j].record[cur.primary_key]

\* The result, the valid set and the quarantine records of a processed
\* entity stay as they are.
TerminalStable ==
    \A s \in DOMAIN results :
       /\ s \in DOMAIN results' /\ results'[s] = results[s]
       /\ FileOf(silver', s) = FileOf(silver, s)
       /\ FileOf(quarantine', s) = FileOf(quarantine, s)

\* C27: per row, dropped as a duplicate or exactly one terminal state among
\* Valid, Orphaned-Quarantined and Invalid-Quarantined; valid set and
\* quarantine set disjoint; nothing changes for a row once its entity is
\* processed.
C27_RowStateMachine == [][RowStates' /\ TerminalStable]_vars

\* One call dropped a duplicate, accepted a row and quarantined a row, and
\* a later step of the run has been taken.
C27_Witness ==
    /\ Called
    /\ cur.validated
    /\ results[cur.source_name].duplicates_removed > 0
    /\ results[cur.source_name].valid_records > 0
    /\ results[cur.source_name].quarantined_records > 0
    /\ pc = "done"

\* The line items emitted for invoice id v: rows of the line-item table
\* and line-item quarantine records.
EmittedItems(v) ==
    Cardinality({i \in 1..Len(FileOf(silver, "invoice_line_items")) :
                    silver["invoice_line_items"][i].invoice_id = v})
    + Cardinality({i \in 1..Len(FileOf(quarantine, "invoice_line_items")) :
                    quarantine["invoice_line_items"][i].record.invoice_id = v})

\* The line items embedded in row r.
EmbeddedItems(r) ==
    IF r.line_items_json.kind = "list" THEN Len(r.line_items_json.items) ELSE 0

\* C30: once the extractor has run, the items emitted for a valid invoice
\* are those of the row that survived the keep-first deduplication: as many
\* as that row embeds, whatever the dropped duplicates embed.
C30_ItemsOfSurvivorOnly ==
    (/\ pc = "done"
     /\ RunsLineItems
     /\ "invoices" \in DOMAIN bronze
     /\ "invoices" \in DOMAIN silver) =>
       \A i \in FirstOccurrences(bronze["invoices"], "invoice_id") :
          LET r == bronze["invoices"][i] IN
          (\E k \in 1..Len(silver["invoices"]) :
              silver["invoices"][k].invoice_id = r.invoice_id)
          => EmittedItems(r.invoice_id) = EmbeddedItems(r)

\* The line-item table and the line-item quarantine document.
LineItemArtifacts ==
    <<FileOf(silver, "invoice_line_items"), FileOf(quarantine, "invoice_line_items")>>

\* C28: the line-item artifacts are written only by the one step that ends
\* the post-processing position of process_all, which is entered from the
\* source loop and never again, and only when the result of invoices
\* exists with valid_records > 0; no step of a finished run writes them.
C28_ExtractorOnceAfterInvoices ==
    [][/\ pc # "done"
       /\ pc' = "post" => pc = "loop"
       /\ LineItemArtifacts' # LineItemArtifacts =>
             /\ pc = "post" /\ pc' = "done"
             /\ "invoices" \in DOMAIN results
             /\ results["invoices"].valid_records > 0]_vars

\* A finished run in which invoices produced a valid row and the extractor
\* replaced the line-item table it found.
C28_Witness ==
    /\ pc = "done"
    /\ "invoices" \in DOMAIN results
    /\ results["invoices"].valid_records > 0
    /\ FileOf(silver, "invoice_line_items") # LeftSilver["invoice_line_items"]

\* The frame that holds the rows of df at the positions kept.
Take(df, kept) == [k \in 1..Len(kept) |-> df[kept[k]]]

\* C21: deduplicating the output of the deduplication on the same primary
\* key removes no row and returns the same row sequence.
C21_DedupIdempotent ==
    (Called /\ cur.primary_key # None /\ cur.primary_key \in Columns(cur.df)) =>
       \A again \in Unique(cur.df, cur.primary_key) :
          /\ Len(again) = Len(cur.df)
          /\ Take(cur.df, again) = cur.df

\* C22: in the second of two runs from a clean output state on the same
\* input, every entity result has the valid_records of the first run, and
\* the finished second run has a result for the same entities.
C22_SameValidCounts ==
    run = 2 =>
       /\ \A s \in DOMAIN results :
             /\ s \in DOMAIN first_results
             /\ results[s].valid_records = first_results[s].valid_records
       /\ pc = "done" => DOMAIN results = DOMAIN first_results

\* A second run has finished in which an entity lost a duplicate, kept a
\* valid row and quarantined another, as in the first run.
C22_Witness ==
    /\ run = 2
    /\ pc = "done"
    /\ \E s \in DOMAIN results :
          /\ results[s].duplicates_removed > 0
          /\ results[s].valid_records > 0
          /\ results[s].quarantined_records > 0
          /\ results[s] = first_results[s]

\* The cells of column c of the frame df, in row order.
CellsOf(df, c) == [k \in 1..Len(df) |-> df[k][c]]

\* The fields of the schema of the latest call that declare a clean rule.
CleanDeclared ==
    LET fields == schemas_config[cur.schema_name].fields
    IN {fields[j] : j \in {i \in 1..Len(fields) : fields[i].clean # None}}

\* C24: for every field with a declared clean rule, fields_cleaned[field]
\* of the entity result is the number of rows whose value in that field the
\* cleaning changed (0 when the field has no entry).
C24_FieldsCleanedCountsRows ==
    (Called /\ cur.schema_name \in DOMAIN schemas_config) =>
       LET fields_cleaned == results[cur.source_name].fields_cleaned
       IN \A f \in CleanDeclared :
             (IF f.name \in DOMAIN fields_cleaned THEN fields_cleaned[f.name] ELSE 0)
             = Cardinality({k \in 1..Len(cur.raw) :
                               cur.raw[k][f.name] # cur.before[k][f.name]})

\* C26: when clean_column is called on the frame the processor read, for a
\* field with its declared clean rule, and no rule raised on either side,
\* the column the processor's cleaning step produced equals the column
\* clean_column returned.
C26_ProcessorRefinesCleaner ==
    (/\ cleaner_call # NoCleanerCall
     /\ cleaner_call.df = cur.raw
     /\ ~cleaner_call.raised
     /\ cleaner_call.rule_name \in DOMAIN Rules
     /\ cleaner_call.field_name \notin cur.raising
     /\ \E f \in CleanDeclared : /\ f.name = cleaner_call.field_name
                                 /\ f.clean = cleaner_call.rule_name)
    => CellsOf(cur.before, cleaner_call.field_name)
       = CellsOf(cleaner_call.out, cleaner_call.field_name)

\* C23: clean_column returns its input frame with changed = false when the
\* rule name is unknown, the column is not text, or the rule raised; in
\* _process_source a clean rule that raised leaves its column as read, the
\* remaining text fields with a rule the step knows are still cleaned, and
\* the run goes on to a result that accounts for every row read.
C23_CleaningNeverAborts ==
    /\ (/\ cleaner_call # NoCleanerCall
        /\ \/ cleaner_call.rule_name \notin DOMAIN Rules
           \/ ~IsText(cleaner_call.df, cleaner_call.field_name)
           \/ cleaner_call.raised)
       => /\ cleaner_call.out = cleaner_call.df
          /\ cleaner_call.changed = FALSE
    /\ (Called /\ cur.schema_name \in DOMAIN schemas_config) =>
          /\ \A c \in cur.raising :
                CellsOf(cur.before, c) = CellsOf(cur.raw, c)
          /\ \A f \in CleanDeclared :
                (/\ f.name \notin cur.raising
                 /\ f.clean \in ProcessorRules
                 /\ IsText(cur.raw, f.name))
                => /\ f.name \in DOMAIN results[cur.source_name].fields_cleaned
                   /\ CellsOf(cur.before, f.name)
                      = [k \in 1..Len(cur.raw) |->
                            IF cur.raw[k][f.name] = None THEN None
                            ELSE ProcessorRule(f.clean, cur.raw[k][f.name])]
          /\ LET r == results[cur.source_name]
             IN /\ r.total_records = Len(cur.raw)
                /\ r.total_records = r.valid_records + r.quarantined_records
                                     + r.duplicates_removed

\* The lowercase rule raised on an email column that holds capitals, the
\* phone rule after it changed a phone number, the run finished with a
\* result, and a clean_column call whose rule raised has returned.
C23_Witness ==
    /\ Called
    /\ pc = "done"
    /\ cur.raising = {"email"}
    /\ \E k \in 1..Len(cur.raw) : cur.raw[k]["email"] = "A@B.CO"
    /\ "phone" \in DOMAIN results[cur.source_name].fields_cleaned
    /\ \E k \in 1..Len(cur.raw) : /\ cur.raw[k]["phone"] = "555-1234"
                                  /\ cur.before[k]["phone"] = "5551234"
    /\ cleaner_call # NoCleanerCall
    /\ cleaner_call.raised

====
